---- MODULE Spec2Model ----
(***************************************************************************)
(* Model of deep_disk_check.py: the per-disk unmount / verify / repair /   *)
(* remount loop of main(), the module-level UNMOUNTED_DISKS list and       *)
(* CLEANUP_DONE flag, and cleanup() as it is reached from its three        *)
(* triggers (atexit hook, SIGINT handler, SIGTERM handler).                *)
(*                                                                         *)
(* Init is the state of the process after main() has parsed its arguments, *)
(* set up logging and registered the three triggers (lines 307-315).       *)
(*                                                                         *)
(* One action is one step of the interpreter between two points where a    *)
(* Python-level signal handler can run.  A subprocess.run of a diskutil    *)
(* command that changes the mount state is two steps: the call is issued   *)
(* (pc = "..._call", the child is in flight) and the call returns.         *)
(*                                                                         *)
(* cleanup() always ends by raising SystemExit, so the frame a handler     *)
(* interrupts never resumes: a delivered signal replaces the running frame *)
(* by a cleanup frame.  A child in flight at that moment is killed by      *)
(* subprocess.run on the way out; whether it had already changed the mount *)
(* state is not determined.                                                *)
(*                                                                         *)
(* A SystemExit that is raised while the interpreter is already running    *)
(* its exit hooks is reported and ignored: the exit status stays the one   *)
(* of the first SystemExit.                                                *)
(***************************************************************************)
EXTENDS Integers, Sequences, FiniteSets, TLC

\* ------------------------------ bounds ---------------------------------
MaxDisks == 2
MaxSignals == 1

Disk == 1..MaxDisks
NoDisk == 0

\* identifiers: disk d is <<d>>, its partition k is <<d, k>>
DevId(d) == << d >>
Partitions == { << d, 1 >> : d \in Disk }

Args == {"dry_run", "non_interactive", "interactive"}
FsClasses == {"unknown", "unsupported", "supported"}
Ops == {"unmountDisk", "mountDisk", "verifyVolume", "repairVolume"}

VARIABLES
    mode,               \* "unset" until main resolves it, then "normal" or "dry"
    disks,              \* the list returned by get_external_disks
    idx,                \* position of main's for loop in disks
    fs_type,            \* fs_type[d]: classification of d, "none" before its turn
    mounted,            \* mounted[d]: the mount state of d on the host
    UNMOUNTED_DISKS,    \* the module-level list
    CLEANUP_DONE,       \* the module-level flag
    ctx,                \* running frame: "main", "handler" or "atexit"
    pc,                 \* position in the running frame
    todo,               \* cleanup: rest of UNMOUNTED_DISKS.copy(), head = current
    exiting,            \* a SystemExit has started interpreter shutdown
    exitStatus,         \* process exit status, -1 while not decided
    signals,            \* number of SIGINT/SIGTERM delivered so far
    errorLog,           \* the error log: set of <<kind, disk>> records
    summaries,          \* the summary blocks appended to the error log, in order
    calls,              \* history: <<op, d>> of every mutating diskutil call issued
    cleanupMounts,      \* history: number of mountDisk calls cleanup issued per disk
    sweeps,             \* history: number of times cleanup passed its done-flag test
    owed,               \* history: disks this run unmounted and has not remounted
    everUnmounted,      \* history: disks this run unmounted at some point
    lastRet,            \* history: result of the last mount_disk that returned, per disk
    mainRemountFailed,  \* history: disks whose per-disk remount failed in main
    repairFailed,       \* history: disks whose repairVolume failed
    prereqFailed,       \* history: a prerequisite check aborted the run
    normalExit,         \* history: main reached its sys.exit(0) at line 372
    sigInMain,          \* history: a signal was delivered before shutdown began
    sysParts,           \* the partitions `diskutil list` shows with a system signature
    repaired,           \* history: disks whose verify failed and whose repair succeeded
    foundUnmounted,     \* history: disks unmount_disk found not mounted
    attached            \* the external physical disks of the host are 1..attached

vars == << mode, disks, idx, fs_type, mounted, UNMOUNTED_DISKS,
           CLEANUP_DONE, ctx, pc, todo, exiting, exitStatus, signals,
           errorLog, summaries, calls, cleanupMounts, sweeps, owed,
           everUnmounted, lastRet, mainRemountFailed, repairFailed,
           prereqFailed, normalExit, sigInMain, sysParts, repaired,
           foundUnmounted, attached >>

\* the history variables: they record what happened and steer nothing
histVars == << calls, cleanupMounts, sweeps, owed, everUnmounted, lastRet,
               mainRemountFailed, repairFailed, prereqFailed, normalExit,
               sigInMain, repaired, foundUnmounted, attached >>

\* ------------------------------ helpers --------------------------------
InList(s, d) == \E i \in 1..Len(s) : s[i] = d

\* list.remove(d): drops the first occurrence of d
ListRemove(s, d) ==
    LET i == CHOOSE k \in 1..Len(s) : s[k] = d /\ \A j \in 1..(k-1) : s[j] # d
    IN  SubSeq(s, 1, i-1) \o SubSeq(s, i+1, Len(s))

\* log_error: the record reaches the error log (and the spec log)
log_error(kind, d) == errorLog' = errorLog \cup {<<kind, d>>}

CurDisk == disks[idx]

\* exit statuses
MainExitCode == 0
PrereqExitCode == 1
CleanupExitCode == 1

\* the status the process ends with when SystemExit(code) is raised
StatusAfter(code) == IF exiting THEN exitStatus ELSE code

\* raise SystemExit(code) out of the running frame
SysExit(code) ==
    /\ exitStatus' = StatusAfter(code)
    /\ exiting' = TRUE
    /\ IF exiting
         THEN /\ pc' = "exited"
              /\ ctx' = ctx
         ELSE /\ pc' = "c_check"
              /\ ctx' = "atexit"

RecommendationAlwaysPassed(log) == "passed"

\* the summary text append_summary chooses from the error log it reads
Recommendation(log) == IF log # {} THEN "manual" ELSE "passed"

\* the state after lines 307-315, the host's system partitions left open
InitRun ==
    /\ mode = "unset"
    /\ disks = << >>
    /\ idx = 0
    /\ fs_type = [d \in Disk |-> "none"]
    /\ attached \in 0..MaxDisks
    /\ mounted \in [Disk -> BOOLEAN]
    /\ \A d \in Disk : d > attached => ~mounted[d]
    /\ UNMOUNTED_DISKS = << >>
    /\ CLEANUP_DONE = FALSE
    /\ ctx = "main"
    /\ pc = "check_cmds"
    /\ todo = << >>
    /\ exiting = FALSE
    /\ exitStatus = -1
    /\ signals = 0
    /\ errorLog = {}
    /\ summaries = << >>
    /\ calls = {}
    /\ cleanupMounts = [d \in Disk |-> 0]
    /\ sweeps = 0
    /\ owed = {}
    /\ everUnmounted = {}
    /\ lastRet = [d \in Disk |-> "none"]
    /\ mainRemountFailed = {}
    /\ repairFailed = {}
    /\ prereqFailed = FALSE
    /\ normalExit = FALSE
    /\ sigInMain = FALSE
    /\ repaired = {}
    /\ foundUnmounted = {}

\* a host whose external disks carry no partition with a system signature
Init == InitRun /\ sysParts = {}

\* any host: partitions of the external disks may carry a system signature
InitAnyHost ==
    InitRun /\ sysParts \in SUBSET { p \in Partitions : p[1] <= attached }

\* ------------------------- main(): prerequisites -----------------------
NextDiskBreak == idx' = idx /\ pc' = "completed"

\* main's for loop moves to the next disk, or leaves the loop
NextDisk ==
    IF idx < Len(disks)
      THEN idx' = idx + 1 /\ pc' = "classify"
      ELSE idx' = idx /\ pc' = "completed"

\* check_required_commands (line 318)
CheckRequiredCommands ==
    /\ ctx = "main" /\ pc = "check_cmds"
    /\ \E ok \in BOOLEAN :
         IF ok
           THEN /\ pc' = "ensure_root"
                /\ UNCHANGED << ctx, exiting, exitStatus, errorLog, prereqFailed >>
           ELSE /\ log_error("missing_cmd", NoDisk)
                /\ prereqFailed' = TRUE
                /\ SysExit(PrereqExitCode)
    /\ UNCHANGED << sysParts, mode, disks, idx, fs_type, mounted, UNMOUNTED_DISKS,
                    CLEANUP_DONE, todo, signals, summaries, calls,
                    cleanupMounts, sweeps, owed, everUnmounted, lastRet,
                    mainRemountFailed, repairFailed, normalExit, sigInMain,
                    repaired, foundUnmounted, attached >>

EnsureRootWarnsOnly ==
    /\ ctx = "main" /\ pc = "ensure_root"
    /\ \E ok \in BOOLEAN :
         /\ errorLog' = IF ok THEN errorLog ELSE errorLog \cup {<<"not_root", NoDisk>>}
         /\ prereqFailed' = (prereqFailed \/ ~ok)
         /\ pc' = "select_mode"
    /\ UNCHANGED << sysParts, mode, disks, idx, fs_type, mounted, UNMOUNTED_DISKS,
                    CLEANUP_DONE, ctx, todo, exiting, exitStatus, signals,
                    summaries, calls, cleanupMounts, sweeps, owed,
                    everUnmounted, lastRet, mainRemountFailed, repairFailed,
                    normalExit, sigInMain, repaired, foundUnmounted, attached >>

\* ensure_root (line 321)
EnsureRoot ==
    /\ ctx = "main" /\ pc = "ensure_root"
    /\ \E ok \in BOOLEAN :
         IF ok
           THEN /\ pc' = "select_mode"
                /\ UNCHANGED << ctx, exiting, exitStatus, errorLog, prereqFailed >>
           ELSE /\ log_error("not_root", NoDisk)
                /\ prereqFailed' = TRUE
                /\ SysExit(PrereqExitCode)
    /\ UNCHANGED << sysParts, mode, disks, idx, fs_type, mounted, UNMOUNTED_DISKS,
                    CLEANUP_DONE, todo, signals, summaries, calls,
                    cleanupMounts, sweeps, owed, everUnmounted, lastRet,
                    mainRemountFailed, repairFailed, normalExit, sigInMain,
                    repaired, foundUnmounted, attached >>

\* lines 324-334: the flags, or the menu (an invalid choice asks again)
SelectMode ==
    /\ ctx = "main" /\ pc = "select_mode"
    /\ \E args \in Args, choice \in {"1", "2", "3"} :
         IF args = "interactive" /\ choice = "3"
           THEN /\ SysExit(0)
                /\ mode' = mode
           ELSE /\ mode' = IF args = "non_interactive" THEN "normal"
                           ELSE IF args = "dry_run" THEN "dry"
                           ELSE IF choice = "1" THEN "normal" ELSE "dry"
                /\ pc' = "get_disks"
                /\ UNCHANGED << ctx, exiting, exitStatus >>
    /\ UNCHANGED << sysParts, disks, idx, fs_type, mounted, UNMOUNTED_DISKS,
                    CLEANUP_DONE, todo, signals, errorLog, summaries >>
    /\ UNCHANGED histVars

\* str.startswith: q is a prefix of p
StartsWith(p, q) == Len(q) <= Len(p) /\ SubSeq(p, 1, Len(q)) = q

\* is_system_disk (lines 154-168): False when `diskutil list` fails
is_system_disk(d, listFailed) ==
    ~listFailed /\ \E p \in sysParts : StartsWith(p, DevId(d))

\* get_external_disks (lines 136-152, called at line 337) and the test of
\* line 339; qfail: the listed disks for which is_system_disk's query failed
GetExternalDisks ==
    /\ ctx = "main" /\ pc = "get_disks"
    /\ \E ok \in BOOLEAN, qfail \in SUBSET (1..attached) :
         LET listed == [i \in 1..attached |-> i]
             Keep(d) == ~is_system_disk(d, d \in qfail)
             found == IF ok THEN SelectSeq(listed, Keep) ELSE << >>
         IN  /\ disks' = found
             /\ errorLog' = IF ok
                              THEN errorLog \cup {<<"sysdisk_query_fail", NoDisk>> : d \in qfail}
                              ELSE errorLog \cup {<<"enum_fail", NoDisk>>}
             /\ IF found # << >>
                  THEN idx' = 1 /\ pc' = "classify"
                  ELSE idx' = 0 /\ pc' = "completed"
    /\ UNCHANGED << sysParts, mode, fs_type, mounted, UNMOUNTED_DISKS,
                    CLEANUP_DONE, ctx, todo, exiting, exitStatus, signals,
                    summaries >>
    /\ UNCHANGED histVars

\* ------------------------- main(): the per-disk loop -------------------
\* get_filesystem and the test of lines 346-349
Classify ==
    /\ ctx = "main" /\ pc = "classify"
    /\ \E c \in FsClasses :
         /\ fs_type' = [fs_type EXCEPT ![CurDisk] = c]
         /\ IF c = "unknown"
              THEN /\ errorLog' = errorLog \cup {<<"fs_not_found", CurDisk>>,
                                                 <<"fs_undetermined", CurDisk>>}
                   /\ NextDisk
              ELSE /\ pc' = "unmount_query"
                   /\ UNCHANGED << errorLog, idx >>
    /\ UNCHANGED << sysParts, mode, disks, mounted, UNMOUNTED_DISKS, CLEANUP_DONE,
                    ctx, todo, exiting, exitStatus, signals, summaries >>
    /\ UNCHANGED histVars

UnmountIssuedAnyMode(m, isMounted) == isMounted

\* unmount_disk issues diskutil unmountDisk (lines 181-186)
UnmountIssued(m, isMounted) == isMounted /\ m # "dry"

SkipDiskIgnored == pc' = "verify" /\ idx' = idx

\* unmount_disk returned False: main skips the disk (lines 352-353)
SkipDisk == NextDisk

NotMountedNextRecorded == "unmount_ok"

\* where unmount_disk goes on when the disk is not mounted, or in a dry run:
\* it returns True without touching UNMOUNTED_DISKS (lines 182-184, 190-192)
NotMountedNext == "verify"

\* unmount_disk up to the unmountDisk call (lines 175-186, 190-195)
UnmountQuery ==
    /\ ctx = "main" /\ pc = "unmount_query"
    /\ \E infoOk \in BOOLEAN :
         IF ~infoOk
           THEN /\ log_error("unmount_fail", CurDisk)
                /\ SkipDisk
                /\ UNCHANGED << calls, foundUnmounted >>
           ELSE IF UnmountIssued(mode, mounted[CurDisk])
                  THEN /\ calls' = calls \cup {<<"unmountDisk", CurDisk>>}
                       /\ pc' = "unmount_call"
                       /\ UNCHANGED << errorLog, idx, foundUnmounted >>
                  ELSE /\ pc' = NotMountedNext
                       /\ foundUnmounted' =
                              IF mounted[CurDisk] THEN foundUnmounted
                              ELSE foundUnmounted \cup {CurDisk}
                       /\ UNCHANGED << errorLog, idx, calls >>
    /\ UNCHANGED << sysParts, mode, disks, fs_type, mounted, UNMOUNTED_DISKS,
                    CLEANUP_DONE, ctx, todo, exiting, exitStatus, signals,
                    summaries, cleanupMounts, sweeps, owed, everUnmounted,
                    lastRet, mainRemountFailed, repairFailed, prereqFailed,
                    normalExit, sigInMain,
                    repaired, attached >>

\* diskutil unmountDisk returns (lines 186, 193-195)
UnmountReturn ==
    /\ ctx = "main" /\ pc = "unmount_call"
    /\ \E ok \in BOOLEAN :
         IF ok
           THEN /\ mounted' = [mounted EXCEPT ![CurDisk] = FALSE]
                /\ owed' = owed \cup {CurDisk}
                /\ everUnmounted' = everUnmounted \cup {CurDisk}
                /\ pc' = "unmount_ok"
                /\ UNCHANGED << errorLog, idx >>
           ELSE /\ log_error("unmount_fail", CurDisk)
                /\ SkipDisk
                /\ UNCHANGED << mounted, owed, everUnmounted >>
    /\ UNCHANGED << sysParts, mode, disks, fs_type, UNMOUNTED_DISKS, CLEANUP_DONE,
                    ctx, todo, exiting, exitStatus, signals, summaries, calls,
                    cleanupMounts, sweeps, lastRet, mainRemountFailed,
                    repairFailed, prereqFailed, normalExit, sigInMain,
                    repaired, foundUnmounted, attached >>

\* UNMOUNTED_DISKS.append(disk) (lines 187-189)
UnmountAppend ==
    /\ ctx = "main" /\ pc = "unmount_ok"
    /\ UNMOUNTED_DISKS' = Append(UNMOUNTED_DISKS, CurDisk)
    /\ pc' = "verify"
    /\ UNCHANGED << sysParts, mode, disks, idx, fs_type, mounted, CLEANUP_DONE,
                    ctx, todo, exiting, exitStatus, signals, errorLog,
                    summaries >>
    /\ UNCHANGED histVars

\* verify_filesystem up to the verifyVolume call (lines 216-226)
Verify ==
    /\ ctx = "main" /\ pc = "verify"
    /\ IF fs_type[CurDisk] # "supported"
         THEN /\ log_error("unsupported", CurDisk)
              /\ pc' = "remount_check"
              /\ UNCHANGED calls
         ELSE IF mode = "dry"
                THEN /\ pc' = "remount_check"
                     /\ UNCHANGED << errorLog, calls >>
                ELSE /\ calls' = calls \cup {<<"verifyVolume", CurDisk>>}
                     /\ pc' = "verify_call"
                     /\ UNCHANGED errorLog
    /\ UNCHANGED << sysParts, mode, disks, idx, fs_type, mounted, UNMOUNTED_DISKS,
                    CLEANUP_DONE, ctx, todo, exiting, exitStatus, signals,
                    summaries, cleanupMounts, sweeps, owed, everUnmounted,
                    lastRet, mainRemountFailed, repairFailed, prereqFailed,
                    normalExit, sigInMain,
                    repaired, foundUnmounted, attached >>

VerifyFailureLogSilent(log, d) == log

\* the error log after verifyVolume failed for d (lines 228-229)
VerifyFailureLog(log, d) == log \cup {<<"verify_issue", d>>}

\* diskutil verifyVolume returns; on failure repairVolume is called (lines 226-232)
VerifyReturn ==
    /\ ctx = "main" /\ pc = "verify_call"
    /\ \E ok \in BOOLEAN :
         IF ok
           THEN /\ pc' = "remount_check"
                /\ UNCHANGED << errorLog, calls >>
           ELSE /\ errorLog' = VerifyFailureLog(errorLog, CurDisk)
                /\ calls' = calls \cup {<<"repairVolume", CurDisk>>}
                /\ pc' = "repair_call"
    /\ UNCHANGED << sysParts, mode, disks, idx, fs_type, mounted, UNMOUNTED_DISKS,
                    CLEANUP_DONE, ctx, todo, exiting, exitStatus, signals,
                    summaries, cleanupMounts, sweeps, owed, everUnmounted,
                    lastRet, mainRemountFailed, repairFailed, prereqFailed,
                    normalExit, sigInMain,
                    repaired, foundUnmounted, attached >>

RepairFailureLogSilent(log, d) == log

\* the error log after repairVolume failed for d (lines 234-235)
RepairFailureLog(log, d) == log \cup {<<"manual_intervention", d>>}

\* diskutil repairVolume returns (lines 232-235)
RepairReturn ==
    /\ ctx = "main" /\ pc = "repair_call"
    /\ \E ok \in BOOLEAN :
         IF ok
           THEN /\ repaired' = repaired \cup {CurDisk}
                /\ UNCHANGED << errorLog, repairFailed >>
           ELSE /\ errorLog' = RepairFailureLog(errorLog, CurDisk)
                /\ repairFailed' = repairFailed \cup {CurDisk}
                /\ UNCHANGED repaired
    /\ pc' = "remount_check"
    /\ UNCHANGED << sysParts, mode, disks, idx, fs_type, mounted, UNMOUNTED_DISKS,
                    CLEANUP_DONE, ctx, todo, exiting, exitStatus, signals,
                    summaries, calls, cleanupMounts, sweeps, owed,
                    everUnmounted, lastRet, mainRemountFailed, prereqFailed,
                    normalExit, sigInMain,
                    foundUnmounted, attached >>

\* mount_disk issues diskutil mountDisk (lines 202-206)
MountIssued(m) == m # "dry"

\* lines 359-360 and mount_disk up to the mountDisk call (lines 202-206)
RemountCheck ==
    /\ ctx = "main" /\ pc = "remount_check"
    /\ IF InList(UNMOUNTED_DISKS, CurDisk) /\ MountIssued(mode)
         THEN /\ calls' = calls \cup {<<"mountDisk", CurDisk>>}
              /\ pc' = "mount_call"
              /\ idx' = idx
         ELSE /\ NextDisk
              /\ UNCHANGED calls
    /\ UNCHANGED << sysParts, mode, disks, fs_type, mounted, UNMOUNTED_DISKS,
                    CLEANUP_DONE, ctx, todo, exiting, exitStatus, signals,
                    errorLog, summaries, cleanupMounts, sweeps, owed,
                    everUnmounted, lastRet, mainRemountFailed, repairFailed,
                    prereqFailed, normalExit, sigInMain,
                    repaired, foundUnmounted, attached >>

\* diskutil mountDisk returns to mount_disk called by main (lines 206, 209-210)
MountReturn ==
    /\ ctx = "main" /\ pc = "mount_call"
    /\ \E ok \in BOOLEAN :
         IF ok
           THEN /\ mounted' = [mounted EXCEPT ![CurDisk] = TRUE]
                /\ owed' = owed \ {CurDisk}
                /\ pc' = "mount_ok"
                /\ UNCHANGED << errorLog, idx, lastRet, mainRemountFailed >>
           ELSE /\ log_error("remount_fail", CurDisk)
                /\ lastRet' = [lastRet EXCEPT ![CurDisk] = "fail"]
                /\ mainRemountFailed' = mainRemountFailed \cup {CurDisk}
                /\ NextDisk
                /\ UNCHANGED << mounted, owed >>
    /\ UNCHANGED << sysParts, mode, disks, fs_type, UNMOUNTED_DISKS, CLEANUP_DONE,
                    ctx, todo, exiting, exitStatus, signals, summaries, calls,
                    cleanupMounts, sweeps, everUnmounted, repairFailed,
                    prereqFailed, normalExit, sigInMain,
                    repaired, foundUnmounted, attached >>

RemoveMountedKeep(list, d) == list

\* UNMOUNTED_DISKS.remove(disk) after a successful mountDisk (line 208)
RemoveMounted(list, d) == ListRemove(list, d)

\* lines 207-208 in mount_disk called by main; remove raises ValueError
\* when the disk is not in the list
MountRemove ==
    /\ ctx = "main" /\ pc = "mount_ok"
    /\ IF InList(UNMOUNTED_DISKS, CurDisk)
         THEN /\ UNMOUNTED_DISKS' = RemoveMounted(UNMOUNTED_DISKS, CurDisk)
              /\ lastRet' = [lastRet EXCEPT ![CurDisk] = "ok"]
              /\ NextDisk
              /\ UNCHANGED << ctx, exiting, exitStatus >>
         ELSE /\ SysExit(1)
              /\ UNCHANGED << UNMOUNTED_DISKS, lastRet, idx >>
    /\ UNCHANGED << sysParts, mode, disks, fs_type, mounted, CLEANUP_DONE, todo,
                    signals, errorLog, summaries, calls, cleanupMounts,
                    sweeps, owed, everUnmounted, mainRemountFailed,
                    repairFailed, prereqFailed, normalExit, sigInMain,
                    repaired, foundUnmounted, attached >>

\* ------------------------- main(): completion --------------------------
\* append_summary called by main (line 368)
AppendSummaryMain ==
    /\ ctx = "main" /\ pc = "completed"
    /\ summaries' = Append(summaries, Recommendation(errorLog))
    /\ pc' = "set_done"
    /\ UNCHANGED << sysParts, mode, disks, idx, fs_type, mounted, UNMOUNTED_DISKS,
                    CLEANUP_DONE, ctx, todo, exiting, exitStatus, signals,
                    errorLog >>
    /\ UNCHANGED histVars

\* CLEANUP_DONE = True (line 371)
SetDoneMain ==
    /\ ctx = "main" /\ pc = "set_done"
    /\ CLEANUP_DONE' = TRUE
    /\ pc' = "sys_exit"
    /\ UNCHANGED << sysParts, mode, disks, idx, fs_type, mounted, UNMOUNTED_DISKS,
                    ctx, todo, exiting, exitStatus, signals, errorLog,
                    summaries >>
    /\ UNCHANGED histVars

\* sys.exit(0) (line 372)
SysExitMain ==
    /\ ctx = "main" /\ pc = "sys_exit"
    /\ normalExit' = TRUE
    /\ SysExit(MainExitCode)
    /\ UNCHANGED << sysParts, mode, disks, idx, fs_type, mounted, UNMOUNTED_DISKS,
                    CLEANUP_DONE, todo, signals, errorLog, summaries, calls,
                    cleanupMounts, sweeps, owed, everUnmounted, lastRet,
                    mainRemountFailed, repairFailed, prereqFailed, sigInMain,
                    repaired, foundUnmounted, attached >>

\* ------------------------------ cleanup() ------------------------------
InCleanup == ctx \in {"handler", "atexit"}

SweepListAllDisks == disks

\* the list cleanup iterates over: UNMOUNTED_DISKS.copy() (line 263)
SweepList == UNMOUNTED_DISKS

\* the test of the done-flag and UNMOUNTED_DISKS.copy() (lines 261-263)
CleanupCheck ==
    /\ InCleanup /\ pc = "c_check"
    /\ IF ~CLEANUP_DONE
         THEN /\ sweeps' = sweeps + 1
              /\ todo' = SweepList
              /\ pc' = "c_sweep"
         ELSE /\ pc' = "c_exit"
              /\ UNCHANGED << sweeps, todo >>
    /\ UNCHANGED << sysParts, mode, disks, idx, fs_type, mounted, UNMOUNTED_DISKS,
                    CLEANUP_DONE, ctx, exiting, exitStatus, signals, errorLog,
                    summaries, calls, cleanupMounts, owed, everUnmounted,
                    lastRet, mainRemountFailed, repairFailed, prereqFailed,
                    normalExit, sigInMain,
                    repaired, foundUnmounted, attached >>

\* the for loop of cleanup calls mount_disk with mode="normal" (lines 263-264),
\* which issues diskutil mountDisk (lines 202-206)
CleanupSweep ==
    /\ InCleanup /\ pc = "c_sweep"
    /\ IF todo # << >> /\ MountIssued("normal")
         THEN /\ calls' = calls \cup {<<"mountDisk", Head(todo)>>}
              /\ cleanupMounts' = [cleanupMounts EXCEPT ![Head(todo)] = @ + 1]
              /\ pc' = "c_mount_call"
              /\ todo' = todo
         ELSE /\ IF todo = << >>
                   THEN pc' = "c_summary" /\ todo' = todo
                   ELSE pc' = "c_sweep" /\ todo' = Tail(todo)
              /\ UNCHANGED << calls, cleanupMounts >>
    /\ UNCHANGED << sysParts, mode, disks, idx, fs_type, mounted, UNMOUNTED_DISKS,
                    CLEANUP_DONE, ctx, exiting, exitStatus, signals, errorLog,
                    summaries, sweeps, owed, everUnmounted, lastRet,
                    mainRemountFailed, repairFailed, prereqFailed, normalExit,
                    sigInMain,
                    repaired, foundUnmounted, attached >>

\* diskutil mountDisk returns to mount_disk called by cleanup (lines 206, 209-210)
CleanupMountReturn ==
    /\ InCleanup /\ pc = "c_mount_call"
    /\ \E ok \in BOOLEAN :
         IF ok
           THEN /\ mounted' = [mounted EXCEPT ![Head(todo)] = TRUE]
                /\ owed' = owed \ {Head(todo)}
                /\ pc' = "c_mount_ok"
                /\ UNCHANGED << errorLog, lastRet, todo >>
           ELSE /\ log_error("remount_fail", Head(todo))
                /\ lastRet' = [lastRet EXCEPT ![Head(todo)] = "fail"]
                /\ todo' = Tail(todo)
                /\ pc' = "c_sweep"
                /\ UNCHANGED << mounted, owed >>
    /\ UNCHANGED << sysParts, mode, disks, idx, fs_type, UNMOUNTED_DISKS,
                    CLEANUP_DONE, ctx, exiting, exitStatus, signals, summaries,
                    calls, cleanupMounts, sweeps, everUnmounted,
                    mainRemountFailed, repairFailed, prereqFailed, normalExit,
                    sigInMain,
                    repaired, foundUnmounted, attached >>

\* lines 207-208 in mount_disk called by cleanup
CleanupMountRemove ==
    /\ InCleanup /\ pc = "c_mount_ok"
    /\ IF InList(UNMOUNTED_DISKS, Head(todo))
         THEN /\ UNMOUNTED_DISKS' = RemoveMounted(UNMOUNTED_DISKS, Head(todo))
              /\ lastRet' = [lastRet EXCEPT ![Head(todo)] = "ok"]
              /\ todo' = Tail(todo)
              /\ pc' = "c_sweep"
              /\ UNCHANGED << ctx, exiting, exitStatus >>
         ELSE /\ SysExit(1)
              /\ UNCHANGED << UNMOUNTED_DISKS, lastRet, todo >>
    /\ UNCHANGED << sysParts, mode, disks, idx, fs_type, mounted, CLEANUP_DONE,
                    signals, errorLog, summaries, calls, cleanupMounts,
                    sweeps, owed, everUnmounted, mainRemountFailed,
                    repairFailed, prereqFailed, normalExit, sigInMain,
                    repaired, foundUnmounted, attached >>

\* append_summary called by cleanup (line 265)
CleanupSummary ==
    /\ InCleanup /\ pc = "c_summary"
    /\ summaries' = Append(summaries, Recommendation(errorLog))
    /\ pc' = "c_set_done"
    /\ UNCHANGED << sysParts, mode, disks, idx, fs_type, mounted, UNMOUNTED_DISKS,
                    CLEANUP_DONE, ctx, todo, exiting, exitStatus, signals,
                    errorLog >>
    /\ UNCHANGED histVars

\* CLEANUP_DONE = True (line 266)
CleanupSetDone ==
    /\ InCleanup /\ pc = "c_set_done"
    /\ CLEANUP_DONE' = TRUE
    /\ pc' = "c_exit"
    /\ UNCHANGED << sysParts, mode, disks, idx, fs_type, mounted, UNMOUNTED_DISKS,
                    ctx, todo, exiting, exitStatus, signals, errorLog,
                    summaries >>
    /\ UNCHANGED histVars

CleanupExitZero ==
    /\ InCleanup /\ pc = "c_exit"
    /\ SysExit(0)
    /\ UNCHANGED << sysParts, mode, disks, idx, fs_type, mounted, UNMOUNTED_DISKS,
                    CLEANUP_DONE, todo, signals, errorLog, summaries >>
    /\ UNCHANGED histVars

\* sys.exit(1) (line 267)
CleanupExit ==
    /\ InCleanup /\ pc = "c_exit"
    /\ SysExit(CleanupExitCode)
    /\ UNCHANGED << sysParts, mode, disks, idx, fs_type, mounted, UNMOUNTED_DISKS,
                    CLEANUP_DONE, todo, signals, errorLog, summaries >>
    /\ UNCHANGED histVars

\* ------------------------------ signals --------------------------------
\* the diskutil command in flight in the running frame, "none" when none is
InFlightOp ==
    IF pc = "unmount_call" THEN "unmountDisk"
    ELSE IF pc \in {"mount_call", "c_mount_call"} THEN "mountDisk"
    ELSE IF pc = "verify_call" THEN "verifyVolume"
    ELSE IF pc = "repair_call" THEN "repairVolume"
    ELSE "none"

\* the disk of the diskutil call in flight, NoDisk when none is
InFlightDisk ==
    IF pc \in {"unmount_call", "mount_call", "verify_call", "repair_call"}
      THEN CurDisk
    ELSE IF pc = "c_mount_call" THEN Head(todo)
    ELSE NoDisk

\* SIGINT or SIGTERM is delivered: the handler of line 314 or 315 calls
\* cleanup.  The child of a subprocess.run in flight is killed when cleanup's
\* SystemExit leaves subprocess.run; it may or may not have done its work.
Signal ==
    /\ pc # "exited"
    /\ signals < MaxSignals
    /\ signals' = signals + 1
    /\ sigInMain' = (sigInMain \/ ~exiting)
    /\ ctx' = "handler"
    /\ pc' = "c_check"
    /\ \E done \in BOOLEAN :
         IF done /\ pc = "unmount_call"
           THEN /\ mounted' = [mounted EXCEPT ![InFlightDisk] = FALSE]
                /\ owed' = owed \cup {InFlightDisk}
                /\ everUnmounted' = everUnmounted \cup {InFlightDisk}
           ELSE IF done /\ pc \in {"mount_call", "c_mount_call"}
                  THEN /\ mounted' = [mounted EXCEPT ![InFlightDisk] = TRUE]
                       /\ owed' = owed \ {InFlightDisk}
                       /\ UNCHANGED everUnmounted
                  ELSE UNCHANGED << mounted, owed, everUnmounted >>
    /\ UNCHANGED << sysParts, mode, disks, idx, fs_type, UNMOUNTED_DISKS,
                    CLEANUP_DONE, todo, exiting, exitStatus, errorLog,
                    summaries, calls, cleanupMounts, sweeps, lastRet,
                    mainRemountFailed, repairFailed, prereqFailed, normalExit,
                    repaired, foundUnmounted, attached >>

\* ------------------------------ the run --------------------------------
Next ==
    \/ CheckRequiredCommands
    \/ EnsureRoot
    \/ SelectMode
    \/ GetExternalDisks
    \/ Classify
    \/ UnmountQuery
    \/ UnmountReturn
    \/ UnmountAppend
    \/ Verify
    \/ VerifyReturn
    \/ RepairReturn
    \/ RemountCheck
    \/ MountReturn
    \/ MountRemove
    \/ AppendSummaryMain
    \/ SetDoneMain
    \/ SysExitMain
    \/ CleanupCheck
    \/ CleanupSweep
    \/ CleanupMountReturn
    \/ CleanupMountRemove
    \/ CleanupSummary
    \/ CleanupSetDone
    \/ CleanupExit
    \/ Signal

Spec == Init /\ [][Next]_vars

\* the same program on any host
AnyHostSpec == InitAnyHost /\ [][Next]_vars

TypeOK ==
    /\ mode \in {"unset", "normal", "dry"}
    /\ pc \in {"check_cmds", "ensure_root", "select_mode", "get_disks",
               "classify", "unmount_query", "unmount_call", "unmount_ok",
               "verify", "verify_call", "repair_call", "remount_check",
               "mount_call", "mount_ok", "completed", "set_done", "sys_exit",
               "c_check", "c_sweep", "c_mount_call", "c_mount_ok",
               "c_summary", "c_set_done", "c_exit", "exited"}
    /\ exitStatus \in {-1, 0, 1}
    /\ calls \subseteq Ops \X Disk
    /\ owed \subseteq Disk

\* ------------------------------ properties -----------------------------
Exited == pc = "exited"
InSet(d) == InList(UNMOUNTED_DISKS, d)
Issued(op, d) == <<op, d>> \in calls
RemountFailureLogged(d) == <<"remount_fail", d>> \in errorLog

\* C1: when the process has exited, by whatever path, every disk this run
\* unmounted is mounted again, unless the last remount call issued for it
\* after the unmount failed and that failure is in the error log.
C1_NoDiskLeftUnmounted ==
    Exited =>
        \A d \in Disk :
            (d \in everUnmounted /\ ~mounted[d]) =>
                (lastRet[d] = "fail" /\ RemountFailureLogged(d))

\* C2: however many triggers fire, cleanup passes its done-flag test and
\* performs the remount sweep at most once, so no disk gets more than one
\* remount attempt from cleanup; and when a sweep is over every disk still in
\* the Unmounted-Set has had its attempt.
C2_CleanupEffectAtMostOnce ==
    /\ sweeps <= 1
    /\ \A d \in Disk : cleanupMounts[d] <= 1
    /\ (InCleanup /\ pc = "c_summary") =>
           \A d \in Disk : InSet(d) => cleanupMounts[d] >= 1

\* C3: a disk classified Unknown, or whose type was read but is not in the
\* supported list, is never the target of an unmount, verify, repair or
\* mount call.
C3_SkippedDisksUntouched ==
    \A d \in Disk :
        fs_type[d] \in {"unknown", "unsupported"} =>
            \A op \in Ops : ~Issued(op, d)

\* the running frame is between the return of a successful diskutil call and
\* the list update that follows it
MidUpdate == pc \in {"unmount_ok", "mount_ok", "c_mount_ok"}

\* C4: a disk is in the Unmounted-Set iff this run unmounted it and has not
\* remounted it since.  The property is stated for every state except those
\* where the frame that has just received diskutil's success has not yet
\* executed the list update of its next line.
C4_UnmountedSetIffOwed ==
    ~MidUpdate => \A d \in Disk : InSet(d) <=> d \in owed

\* C7: in a run that completes normally and without any signal, a disk whose
\* per-disk remount failed is still in the Unmounted-Set at exit and cleanup
\* has issued one more remount for it.
C7_CleanupRetriesFailedRemount ==
    (Exited /\ normalExit /\ signals = 0) =>
        \A d \in mainRemountFailed : InSet(d) /\ cleanupMounts[d] >= 1

\* C8: the error log never holds two summary blocks, and holds exactly one
\* when the process has exited.
C8_ExactlyOneSummary ==
    /\ Len(summaries) <= 1
    /\ Exited => Len(summaries) = 1

\* C5: once mount_disk has returned for a disk this run unmounted, the disk
\* is absent from the Unmounted-Set if that remount succeeded, and is still
\* in it, with the failure in the error log, if that remount failed.
C5_RemountResultDecidesMembership ==
    \A d \in Disk :
        /\ lastRet[d] = "ok" => ~InSet(d)
        /\ lastRet[d] = "fail" => (InSet(d) /\ RemountFailureLogged(d))

C5_Witness ==
    \E d, e \in Disk :
        /\ {d, e} \subseteq everUnmounted
        /\ lastRet[d] = "ok" /\ ~InSet(d)
        /\ lastRet[e] = "fail" /\ InSet(e)

\* C6: in DryRun mode no unmount, mount, verify or repair call is issued on
\* any path, cleanup and interruption included, and a DryRun run that exits
\* without having been interrupted has written a summary.
C6_DryRunIssuesNoMutation ==
    mode \in {"unset", "dry"} =>
        /\ calls = {}
        /\ (Exited /\ signals = 0) => Len(summaries) >= 1

C6_Witness ==
    /\ Exited /\ mode = "dry" /\ signals = 0
    /\ Len(disks) >= 1
    /\ fs_type[1] = "supported" /\ mounted[1]
    /\ Len(summaries) >= 1

\* main is past the loop iteration of disk d without having been interrupted
MainPast(d) ==
    \/ normalExit
    \/ /\ ctx = "main"
       /\ \/ pc \in {"completed", "set_done", "sys_exit"}
          \/ \E i \in 1..(idx - 1) : disks[i] = d

\* C9 as claimed: status 0 on normal completion, nonzero on prerequisite
\* failure and whenever a signal was received, cleanup having run before exit.
C9_ExitStatusAsClaimed ==
    Exited =>
        /\ (normalExit /\ signals = 0) => exitStatus = 0
        /\ prereqFailed => exitStatus # 0
        /\ signals > 0 => (exitStatus # 0 /\ CLEANUP_DONE)

\* C9 amended: status 0 whenever main reached its sys.exit(0), nonzero on
\* prerequisite failure and whenever a signal was received before the process
\* began to exit, cleanup then having run before exit.
C9_ExitStatus ==
    Exited =>
        /\ normalExit => exitStatus = 0
        /\ prereqFailed => exitStatus # 0
        /\ sigInMain => (exitStatus # 0 /\ CLEANUP_DONE)

C9_Witness ==
    /\ Exited /\ sigInMain /\ ~prereqFailed
    /\ exitStatus = 1 /\ CLEANUP_DONE /\ sweeps >= 1

\* C10: when repairVolume failed for a disk, the manual-intervention error is
\* in the error log; if this run had unmounted the disk, an uninterrupted main
\* has issued its remount by the end of the disk's turn; if that remount
\* succeeded the disk is mounted and absent from the Unmounted-Set; and every
\* summary written says "manual review required", one being written by exit.
C10_RepairFailureStillRemounts ==
    \A d \in repairFailed :
        /\ <<"manual_intervention", d>> \in errorLog
        /\ (d \in everUnmounted /\ signals = 0 /\ MainPast(d))
               => Issued("mountDisk", d)
        /\ lastRet[d] = "ok" => (mounted[d] /\ ~InSet(d))
        /\ \A i \in 1..Len(summaries) : summaries[i] = "manual"
        /\ Exited => Len(summaries) >= 1

C10_Witness ==
    /\ Exited /\ signals = 0 /\ mode = "normal"
    /\ 1 \in repairFailed /\ 1 \in everUnmounted
    /\ lastRet[1] = "ok" /\ mounted[1] /\ ~InSet(1)
    /\ summaries = << "manual" >>

\* ------------------------- the uninterrupted run ----------------------
\* every step of a run that receives no signal.  Without a signal cleanup is
\* entered from the exit hook only, with UNMOUNTED_DISKS empty (prerequisite
\* failure, menu exit) or with CLEANUP_DONE set (normal completion), so its
\* mount steps are never enabled.
QuietNext ==
    \/ CheckRequiredCommands \/ EnsureRoot \/ SelectMode \/ GetExternalDisks
    \/ Classify \/ UnmountQuery \/ UnmountReturn \/ UnmountAppend
    \/ Verify \/ VerifyReturn \/ RepairReturn
    \/ RemountCheck \/ MountReturn \/ MountRemove
    \/ AppendSummaryMain \/ SetDoneMain \/ SysExitMain
    \/ CleanupCheck \/ CleanupSweep \/ CleanupSummary \/ CleanupSetDone
    \/ CleanupExit

\* the interpreter keeps executing and every diskutil call returns
QuietSpec == Init /\ [][QuietNext]_vars /\ WF_vars(QuietNext)

\* the steps QuietNext leaves out need a signal
QuietNextIsComplete == signals = 0 => pc \notin {"c_mount_call", "c_mount_ok"}

\* every disk of the inventory has had its turn in main's loop
AllDisksTaken == \A i \in 1..Len(disks) : fs_type[disks[i]] # "none"

\* main took the disks in inventory order, one at a time: the disks that had
\* their turn are exactly those up to the loop position
TakenInOrder ==
    \A i \in 1..Len(disks) : (fs_type[disks[i]] # "none") <=> (i <= idx)

\* C11: a run that has passed the prerequisite checks and is not interrupted
\* goes on, whatever calls fail, until main has taken every disk of the
\* inventory in order and has exited normally with a summary written.
C11_SweepCompletes ==
    (ctx = "main" /\ pc = "get_disks") ~>
        \/ signals > 0
        \/ /\ Exited /\ normalExit /\ exitStatus = 0
           /\ AllDisksTaken /\ TakenInOrder
           /\ Len(summaries) >= 1

\* a failure on the first disk, the second disk processed, normal completion
C11_Witness ==
    /\ Exited /\ normalExit /\ signals = 0
    /\ Len(disks) >= 2 /\ AllDisksTaken
    /\ errorLog \cap {<<"fs_not_found", disks[1]>>, <<"unmount_fail", disks[1]>>,
                      <<"manual_intervention", disks[1]>>,
                      <<"remount_fail", disks[1]>>} # {}
    /\ Issued("verifyVolume", disks[2])

\* ---------------------------------------------------------------------
\* the summary

\* C12: every summary written says "manual review required" exactly when the
\* errors-only channel holds at least one event, and "all checks passed"
\* otherwise; a normal-mode run without any failure ends with "all checks
\* passed".
C12_SummaryReflectsErrors ==
    /\ \A i \in 1..Len(summaries) :
          /\ summaries[i] \in {"manual", "passed"}
          /\ (summaries[i] = "manual") <=> (errorLog # {})
    /\ (Exited /\ normalExit /\ mode = "normal" /\ errorLog = {})
          => (Len(summaries) >= 1 /\ summaries[1] = "passed")

\* two disks verified in normal mode without any error, summary "passed"
C12_Witness ==
    /\ Exited /\ normalExit /\ mode = "normal" /\ errorLog = {}
    /\ Len(disks) = 2
    /\ \A i \in 1..Len(disks) : Issued("verifyVolume", disks[i])
    /\ summaries = << "passed" >>

\* ---------------------------------------------------------------------
\* interrupts and calls in flight

\* C13: a signal that arrives while a diskutil call of a per-disk step is in
\* flight leaves the step to finish: once the handler has started, the
\* Unmounted-Set reflects the outcome of that call, and from then on the only
\* calls issued are mountDisk calls for members of the Unmounted-Set.
C13_InFlightStepCompletes ==
    [][ /\ (signals' = signals + 1 /\ InFlightOp # "none")
            => \A d \in Disk : (d \in owed') <=> InList(UNMOUNTED_DISKS', d)
        /\ signals > 0
            => \A c \in calls' \ calls :
                  c[1] = "mountDisk" /\ InList(UNMOUNTED_DISKS', c[2])
      ]_vars

\* ---------------------------------------------------------------------
\* degraded success

\* C14 as claimed: a disk whose verification failed and whose repair succeeded
\* leaves no entry in the errors-only channel.
C14_RepairedLeavesNoError ==
    \A d \in repaired : \A e \in errorLog : e[2] # d

\* C14: for a disk whose verification failed and whose repair succeeded, the
\* verification failure is in the errors-only channel (and every summary reads
\* "manual review required"), the repair adds no manual-intervention error,
\* and an uninterrupted run goes on with the remount of the disk, if this run
\* unmounted it, and with the remaining disks.
C14_DegradedSuccess ==
    \A d \in repaired :
       /\ <<"verify_issue", d>> \in errorLog
       /\ <<"manual_intervention", d>> \notin errorLog
       /\ \A i \in 1..Len(summaries) : summaries[i] = "manual"
       /\ (MainPast(d) /\ d \in everUnmounted) => Issued("mountDisk", d)
       /\ normalExit => (AllDisksTaken /\ TakenInOrder)

\* the first disk repaired and remounted, the second disk verified
C14_Witness ==
    /\ Exited /\ normalExit /\ Len(disks) = 2
    /\ disks[1] \in repaired /\ Issued("mountDisk", disks[1])
    /\ Issued("verifyVolume", disks[2])
    /\ summaries = << "manual" >>

\* ---------------------------------------------------------------------
\* failed unmount

\* the unmountDisk call for d was issued and returned failure
UnmountFailed(d) ==
    Issued("unmountDisk", d) /\ <<"unmount_fail", d>> \in errorLog

\* C15: when the unmount of a mounted disk fails in normal mode, the error is
\* logged, the disk stays mounted and out of the Unmounted-Set, no verify,
\* repair or mount call is issued for it, and main goes on with the next disk.
C15_FailedUnmountSkipsDisk ==
    \A d \in Disk : UnmountFailed(d) =>
       /\ mode = "normal"
       /\ mounted[d] /\ ~InSet(d) /\ d \notin everUnmounted
       /\ ~Issued("verifyVolume", d) /\ ~Issued("repairVolume", d)
       /\ ~Issued("mountDisk", d)
       /\ ctx = "main" => MainPast(d)
       /\ normalExit => (AllDisksTaken /\ TakenInOrder)

\* the unmount of the first disk failed and the second disk was verified
C15_Witness ==
    /\ Exited /\ normalExit /\ Len(disks) = 2
    /\ UnmountFailed(disks[1])
    /\ Issued("verifyVolume", disks[2])

\* ---------------------------------------------------------------------
\* disks found unmounted

\* C16: a disk found already unmounted at its turn never enters the
\* Unmounted-Set and is never the target of an unmountDisk or mountDisk call,
\* from main or from cleanup; in normal mode, with a supported filesystem, it
\* is verified all the same.
C16_FoundUnmountedNeverMounted ==
    \A d \in foundUnmounted :
       /\ ~InSet(d) /\ d \notin owed
       /\ ~Issued("mountDisk", d) /\ ~Issued("unmountDisk", d)
       /\ (mode = "normal" /\ fs_type[d] = "supported" /\ MainPast(d))
             => Issued("verifyVolume", d)

\* a disk found unmounted was verified, and a cleanup sweep ran under a signal
C16_Witness ==
    /\ Exited /\ signals > 0 /\ sweeps > 0
    /\ \E d \in foundUnmounted : Issued("verifyVolume", d)

\* ---------------------------------------------------------------------
\* prerequisite failure

\* C17: when the required-commands check or the privilege check fails, the run
\* ends with a nonzero status before a mode is selected or a disk is
\* enumerated, and no diskutil call is ever issued, by main or by cleanup.
C17_PrereqFailureTouchesNothing ==
    prereqFailed =>
       /\ calls = {} /\ disks = << >> /\ mode = "unset"
       /\ UNMOUNTED_DISKS = << >>
       /\ \A d \in Disk : fs_type[d] = "none"
       /\ ctx = "main" => pc \in {"exited"}
       /\ Exited => exitStatus # 0

\* the privilege check failed and the exit hook has run its cleanup
C17_Witness ==
    /\ prereqFailed /\ Exited /\ sweeps > 0
    /\ <<"not_root", NoDisk>> \in errorLog

\* ---------------------------------------------------------------------
\* system disks

\* the disk identifier is a prefix of a partition with a system signature
HostsSystemVolume(d) == \E p \in sysParts : StartsWith(p, DevId(d))

\* C18: the inventory never holds a disk whose identifier is a prefix of a
\* partition with a system volume signature, and no diskutil call is issued
\* for such a disk, also when the partition listing fails.
C18_NoSystemDiskInInventory ==
    /\ \A i \in 1..Len(disks) : ~HostsSystemVolume(disks[i])
    /\ \A c \in calls : ~HostsSystemVolume(c[2])

\* ---------------------------------------------------------------------
\* mount calls and the Unmounted-Set

====
